---- MODULE Spec2Model ----
(***************************************************************************)
(* A model of daf.client.ACCOUNT (src/src/daf/client.py): the account's    *)
(* life cycle (initialize, add_server, remove_server, close, update) run   *)
(* by one sequential caller, and the two scheduler loop tasks (_loop) that *)
(* run concurrently with it on the asyncio event loop.  A step of the      *)
(* model is the code a coroutine runs between two suspension points.       *)
(***************************************************************************)
EXTENDS Integers, Sequences, FiniteSets, TLC

\* ----------------------------------------------------------------- bounds
\* Destinations are 1..MaxDests; odd ones are explicit (GUILD / USER), even
\* ones auto-discovering (AutoGUILD).
MaxDests == 2
\* Number of API calls the caller makes in one behaviour.
MaxOps == 3
\* Number of (guild_ctx, message_ctx) pairs one _advertise call yields at most.
MaxPairs == 1
\* Periods and retry delays are 0..MaxPeriod time units
MaxPeriod == 3
\* The timer is followed up to MaxTime time units
MaxTime == 5
\* Objects decoded in one behaviour
MaxDecoded == 3
\* Changes made in place to one restored object
MaxChanges == 1
\* Items of the data a message is given
MaxItems == 2
\* Pairs yielded in the one tick whose save_log calls are followed
MaxYields == 3

\* ------------------------------------------------------ program constants
\* asyncio.Semaphore(2) of ACCOUNT.__init__
SemPermits == 2
\* misc._async_safe("_update_sem") of ACCOUNT._loop.__loop (amount defaults to 1)
LoopAmount == 1
\* Mutant of UpdateAmount: update_servers is wrapped like __loop, with the
\* default amount.
UpdateAmountDefault == LoopAmount
\* misc._async_safe("_update_sem", 2) of ACCOUNT.update.update_servers
UpdateAmount == 2

Dests == 1..MaxDests
Kinds == {"text", "voice"}
Tokens == {"t1", "t2"}
\* Every construction (__init__) of the account has a number; the loop tasks
\* created by the initialize() of construction n are <<kind, n>>.
MaxConstr == MaxOps + 1
TaskIds == Kinds \X (1..MaxConstr)

VARIABLES
    token,        \* self._token
    running,      \* self._running
    tasks,        \* self.tasks: kind -> task (construction number), 0 is None
    servers,      \* self._servers
    autoguilds,   \* self._autoguilds
    uiservers,    \* self._uiservers
    semId,        \* identity of the object self._update_sem refers to
    permits,      \* semaphore object -> its free permits
    clientState,  \* self._client: "new", "ready" (logged in) or "closed"
    clientCloses, \* number of self._client.close() calls made so far
    nConstr,      \* number of constructions (__init__ runs) so far
    loops,        \* task -> state of that _loop coroutine
    invalid,      \* destinations whose _check_state() reports them gone
    cop,          \* the API call the caller is in ("idle" when in none)
    cpc,          \* the caller's position in that call
    cerr,         \* the exception the call raised ("none" when none)
    cArg,         \* update's token keyword ("keep" when not given)
    cIdx,         \* index of the for loop the caller is in
    cList,        \* the list that for loop iterates
    cHeld,        \* permits held by update_servers
    nOps,         \* API calls made so far
    entry,        \* the account's state when the current call was made
    initOk,       \* predefined destinations whose initialize succeeded, in order
    msg,          \* a BaseMESSAGE object (framework/message/base.py)
    cod,          \* an object, its semi-dict and the object decoded from it
                  \* (daf/convert.py)
    rst,          \* the objects the decoder sets as restored attributes
    ini,          \* a message being initialized, and its data
    cmp,          \* two objects being compared with ==
    grd,          \* the account's semaphore and the coroutines that use it
    tck           \* one tick of a loop task: the pairs yielded, the save_log calls

\* The account, its loop tasks and its caller
accountVars == <<token, running, tasks, servers, autoguilds, uiservers, semId,
                 permits, clientState, clientCloses, nConstr, loops, invalid, cop,
                 cpc, cerr, cArg, cIdx, cList, cHeld, nOps, entry, initOk>>
\* The objects that live outside the account
objVars == <<msg, cod, rst, ini, cmp, grd, tck>>
\* All but one of them
notMsg == <<accountVars, cod, rst, ini, cmp, grd, tck>>
notCod == <<accountVars, msg, rst, ini, cmp, grd, tck>>
notRst == <<accountVars, msg, cod, ini, cmp, grd, tck>>
notIni == <<accountVars, msg, cod, rst, cmp, grd, tck>>
notCmp == <<accountVars, msg, cod, rst, ini, grd, tck>>
notGrd == <<accountVars, msg, cod, rst, ini, cmp, tck>>
notTck == <<accountVars, msg, cod, rst, ini, cmp, grd>>
vars == <<accountVars, objVars>>

acctVars == <<token, running, tasks, servers, autoguilds, uiservers, semId,
              clientState, clientCloses, nConstr>>
callVars == <<cop, cpc, cerr, cArg, cIdx, cList, cHeld, nOps, entry, initOk>>

\* ---------------------------------------------------------------- helpers
InList(s, d) == \E i \in 1..Len(s) : s[i] = d

\* list.remove(d): removes the first occurrence
RemoveFirst(s, d) ==
    LET i == CHOOSE i \in 1..Len(s) : s[i] = d /\ \A j \in 1..(i-1) : s[j] # d
    IN  SubSeq(s, 1, i-1) \o SubSeq(s, i+1, Len(s))

\* Sequences over S without repetition, of every length
RECURSIVE Perms(_)
Perms(S) ==
    IF S = {} THEN {<<>>}
    ELSE UNION {{<<x>> \o p : p \in Perms(S \ {x})} : x \in S}
NoRepeatSeqs(S) == UNION {Perms(T) : T \in SUBSET S}

\* isinstance(server, guild._BaseGUILD)
IsBaseGuild(d) == d % 2 = 1

\* ACCOUNT.servers: a new list, _servers then _autoguilds
Servers == servers \o autoguilds

\* server._check_state(): true when the destination has to be removed
CheckState(d) == d \in invalid

\* visited and stale record what the tick did: the destinations it has
\* health-checked, and whether the one it advertises had left the account's
\* lists before its health check.
NoLoop == [pc |-> "none", snap |-> <<>>, idx |-> 0, pairs |-> 0, sem |-> 0,
           visited |-> <<>>, stale |-> FALSE]
Ended(how) == [NoLoop EXCEPT !.pc = how]
Terminated(t) == loops[t].pc \in {"done", "error"}

AcctState == [token |-> token, running |-> running, tasks |-> tasks,
              servers |-> servers, autoguilds |-> autoguilds,
              uiservers |-> uiservers, semId |-> semId,
              clientState |-> clientState, nConstr |-> nConstr]
EntryState == [acct |-> AcctState, closes |-> clientCloses]
NoEntry == [acct |-> [running |-> FALSE], closes |-> 0]

\* ------------------------------------------------------------------- Init
\* The state after ACCOUNT(token, servers=predefined).
AccountInit ==
    /\ token = "t1"
    /\ running = FALSE
    /\ tasks = [k \in Kinds |-> 0]
    /\ servers = <<>>
    /\ autoguilds = <<>>
    /\ uiservers \in NoRepeatSeqs(Dests)
    /\ semId = 1
    /\ permits = [s \in 1..MaxConstr |-> IF s = 1 THEN SemPermits ELSE 0]
    /\ clientState = "new"
    /\ clientCloses = 0
    /\ nConstr = 1
    /\ loops = [t \in TaskIds |-> NoLoop]
    /\ invalid = {}
    /\ cop = "idle"
    /\ cpc = "idle"
    /\ cerr = "none"
    /\ cArg = "keep"
    /\ cIdx = 0
    /\ cList = <<>>
    /\ cHeld = 0
    /\ nOps = 0
    /\ entry = NoEntry
    /\ initOk = <<>>

\* ------------------------------------------------------------ BaseMESSAGE
\* start_period None
NoPeriod == -1

\* The values of start_period and of end_period, in time units
StartPeriods == {NoPeriod} \cup (0..MaxPeriod)
EndPeriods == 0..MaxPeriod

\* Mutant of DrawnPeriods: the upper end is included (random.randint).
DrawnPeriodsInclusive(start, end) == start..end

\* random.randrange(start_period, end_period): the values it can return; none
\* when the range is empty, and randrange raises ValueError.
DrawnPeriods(start, end) == start..(end - 1)

\* No message object: none was made, or the constructor raised (state
\* "error").
NoMsg ==
    [state |-> "none", start |-> NoPeriod, end |-> 0, randomized |-> FALSE,
     period |-> 0, enabled |-> FALSE, time |-> 0, elapsed |-> 0,
     op |-> "none", ready |-> FALSE, wasArmed |-> FALSE, rearmed |-> FALSE,
     first |-> "none", pristine |-> TRUE, reset |-> FALSE, startNow |-> FALSE,
     firstAt |-> 0, firstPeriod |-> 0]

\* Mutant of Constructed: the forced retry is not armed.
ConstructedNotArmed(start, end, startNow, p) ==
    [NoMsg EXCEPT !.state = "ok", !.start = start, !.end = end,
                  !.randomized = (start # NoPeriod),
                  !.period = IF start = NoPeriod THEN end ELSE p,
                  !.enabled = FALSE, !.time = 0, !.op = "init",
                  !.startNow = startNow]

\* BaseMESSAGE(start_period, end_period, data, start_now) when randrange,
\* if called, returns p.  The timer counts from the construction on.
Constructed(start, end, startNow, p) ==
    [NoMsg EXCEPT !.state = "ok", !.start = start, !.end = end,
                  !.randomized = (start # NoPeriod),
                  !.period = IF start = NoPeriod THEN end ELSE p,
                  !.enabled = startNow, !.time = 0, !.op = "init",
                  !.startNow = startNow]

\* The results of the constructor over all its arguments
Messages ==
    {Constructed(NoPeriod, end, sn, end) : end \in EndPeriods, sn \in BOOLEAN}
    \cup UNION {{Constructed(start, end, sn, p) : p \in DrawnPeriods(start, end)} :
                    start \in 0..MaxPeriod, end \in EndPeriods, sn \in BOOLEAN}
    \cup {[NoMsg EXCEPT !.state = "error", !.start = se[1], !.end = se[2]] :
            se \in {x \in (0..MaxPeriod) \X EndPeriods : DrawnPeriods(x[1], x[2]) = {}}}

\* Mutant of IsReady: the period makes a message ready also while a forced
\* retry is pending.
IsReadyPeriodToo(m) ==
    m.elapsed > m.period \/ (m.enabled /\ m.elapsed > m.time)

\* is_ready()
IsReady(m) ==
    \/ ~m.enabled /\ m.elapsed > m.period
    \/ m.enabled /\ m.elapsed > m.time

\* Mutant of TimerReset: force_retry["ENABLED"] is left as it is.
TimerResetKeepsFlag(m, p) ==
    [m EXCEPT !.elapsed = 0, !.period = IF m.randomized THEN p ELSE @]

\* reset_timer() when randrange, if called, returns p
TimerReset(m, p) ==
    [m EXCEPT !.elapsed = 0, !.enabled = FALSE,
              !.period = IF m.randomized THEN p ELSE @]

\* The values randrange can return in reset_timer of m (one dummy value when
\* it is not called)
Redraws(m) == IF m.randomized THEN DrawnPeriods(m.start, m.end) ELSE {m.period}

\* A failed send arms the forced retry with the delay to wait.
Rearm(m, delay) == [m EXCEPT !.enabled = TRUE, !.time = delay, !.rearmed = TRUE]

\* --------------------------------------------------------------- convert
\* The data of a message: what was passed ("one" object, a "list", a "tuple",
\* a "set", or a "func", an object of FunctionBaseCLASS) and the types of the
\* objects in it.
DataTypes == {"str", "EMBED", "FILE", "AUDIO", "int", "NoneType", "list", "func"}
Data(kind, items) == [kind |-> kind, items |-> items]

\* __valid_data_types__ of the inherited classes
ValidDataTypes(cls) ==
    CASE cls = "TextMESSAGE" -> {"str", "EMBED", "FILE"}
      [] cls = "DirectMESSAGE" -> {"str", "EMBED", "FILE"}
      [] cls = "VoiceMESSAGE" -> {"AUDIO"}
      [] OTHER -> {}

\* Mutant of InitializeData: an object of a type that is not allowed is
\* removed from the list.
InitializeDataRemoves(cls, data) ==
    IF data.kind = "func" THEN [err |-> "none", data |-> data]
    ELSE LET kept == SelectSeq(data.items, LAMBDA x : x \in ValidDataTypes(cls))
         IN  [err |-> IF Len(kept) = 0 THEN "DAFMissingParameterError" ELSE "none",
              data |-> Data("list", kept)]

\* initialize_data: the exception it raises ("none" when it returns) and
\* self.data afterwards
InitializeData(cls, data) ==
    IF data.kind = "func" THEN [err |-> "none", data |-> data]
    ELSE LET list == Data("list", data.items)
         IN  [err |-> IF \E i \in 1..Len(list.items) :
                            list.items[i] \notin ValidDataTypes(cls)
                      THEN "DAFInvalidParameterError"
                      ELSE IF Len(list.items) = 0 THEN "DAFMissingParameterError"
                      ELSE "none",
              data |-> list]

\* No message is being initialized.
NoIni == [pc |-> "none", cls |-> "none", given |-> Data("one", <<"str">>),
          data |-> Data("one", <<"str">>), err |-> "none"]

\* The coroutines that use the account's semaphore: the two _loop tasks and
\* the update_servers of update() calls made by two tasks
Updaters == {"u1", "u2"}
GuardClients == Kinds \cup Updaters

\* The permits _async_safe acquires for the coroutine c: one for __loop, two
\* for update_servers
Needed(c) == IF c \in Kinds THEN LoopAmount ELSE UpdateAmount

\* The semaphore with all its permits, nobody using it: value is its counter,
\* queue its waiters in the order they came, st the place of each coroutine
\* and held the permits it has.
NoGrd == [value |-> SemPermits, queue |-> <<>>,
          st |-> [c \in GuardClients |-> "none"],
          held |-> [c \in GuardClients |-> 0]]

\* asyncio.Semaphore.locked(): no permit, or a waiter that has not gone on yet
SemLocked(g) == g.value = 0 \/ Len(g.queue) > 0

\* asyncio.Semaphore._wake_up_next(): the first waiter that has not been
\* woken is given a permit
WakeUpNext(g) ==
    LET waiting == {i \in 1..Len(g.queue) : g.st[g.queue[i]] = "wait"}
    IN  IF waiting = {} THEN g
        ELSE LET i == CHOOSE i \in waiting : \A j \in waiting : i <= j
             IN  [g EXCEPT !.value = @ - 1, !.st[g.queue[i]] = "woken"]

\* asyncio.Semaphore.release()
SemRelease(g) == WakeUpNext([g EXCEPT !.value = @ + 1])

\* The acquires of _async_safe for the coroutine c, up to the one that has to
\* wait: acquire() takes a permit and returns at once when the semaphore is
\* not locked, else the coroutine joins the waiters; with all its permits the
\* coroutine enters the wrapped function.
RECURSIVE AcquireAll(_, _)
AcquireAll(g, c) ==
    IF g.held[c] >= Needed(c) THEN [g EXCEPT !.st[c] = "in"]
    ELSE IF ~SemLocked(g)
    THEN AcquireAll([g EXCEPT !.value = @ - 1, !.held[c] = @ + 1], c)
    ELSE [g EXCEPT !.queue = Append(@, c), !.st[c] = "wait"]

\* The releases of _async_safe for the coroutine c, one per permit it has
RECURSIVE ReleaseAll(_, _)
ReleaseAll(g, c) ==
    IF g.held[c] = 0 THEN g
    ELSE ReleaseAll(SemRelease([g EXCEPT !.held[c] = @ - 1]), c)

\* What _advertise yields: the guild context of the destination d and the
\* message context, which is None when nothing was sent and tells whether the
\* send succeeded or failed otherwise
MessageContexts == {"None", "sent", "failed"}
Pair(d, m) == [guild_ctx |-> d, message_ctx |-> m]

\* Mutant of Logged: save_log is called for every pair.
LoggedAlways(log, pair) == Append(log, pair)

\* The save_log calls made so far, after the pair was yielded:
\* `if message_ctx is not None: await logging.save_log(guild_ctx, message_ctx)`
Logged(log, pair) ==
    IF pair.message_ctx # "None" THEN Append(log, pair) ELSE log

\* No tick is being followed.
NoTck == [pc |-> "none", snap |-> <<>>, idx |-> 0, seen |-> <<>>, log |-> <<>>,
          running |-> FALSE]

\* An ACCOUNT object as == sees it, and objects of other types
AccountObject(tok, run, srv) ==
    [type |-> "ACCOUNT", _token |-> tok, _running |-> run, _servers |-> srv]
OtherObject(type, value) == [type |-> type, value |-> value]

\* Mutant of AccountEq: the accounts are compared attribute by attribute.
AccountEqAllAttributes(self, other) ==
    IF other.type = "ACCOUNT" THEN (IF self = other THEN "True" ELSE "False")
    ELSE "NotImplementedError"

\* ACCOUNT.__eq__(self, other): what it returns, or the exception it raises
AccountEq(self, other) ==
    IF other.type = "ACCOUNT"
    THEN (IF self._token = other._token THEN "True" ELSE "False")
    ELSE "NotImplementedError"

\* Nothing is being compared.
NoCmp == [pc |-> "none", self |-> OtherObject("NoneType", "None"),
          other |-> OtherObject("NoneType", "None"), res |-> "none"]

\* Python values: a type tag and the value.  A sequence type holds its items
\* in iteration order, a dict a function from its keys, an object of a class
\* its class and its attributes; "opaque" is an object of a class that has no
\* entry in CONVERSION_ATTRS (a semaphore, an API object with the id v).
PyInt(n) == [t |-> "int", v |-> n]
PyFloat(n) == [t |-> "float", v |-> n]
PyDecimal(n) == [t |-> "dec", v |-> n]
PyStr(x) == [t |-> "str", v |-> x]
PyBool(b) == [t |-> "bool", v |-> b]
PyNone == [t |-> "none", v |-> 0]
PyList(q) == [t |-> "list", v |-> q]
PyTuple(q) == [t |-> "tuple", v |-> q]
PySet(q) == [t |-> "set", v |-> q]
PyDict(f) == [t |-> "dict", v |-> f]
PyObject(cls, f) == [t |-> "obj", v |-> [cls |-> cls, f |-> f]]
PyOpaque(n) == [t |-> "opaque", v |-> n]
NoFields == [k \in {} |-> PyNone]

\* {int, float, str, bool, decimal.Decimal, type(None)}
PrimTypes == {"int", "float", "str", "bool", "dec", "none"}

\* Identities of the objects that are not values: the semaphore of the table,
\* a semaphore in use, an API object, the owner a parent attribute refers to
TableSem == 1
LiveSem == 2
ApiObject == 3
Owner == 4

\* asyncio.Semaphore(1): the permits of the semaphores of the table
TableSemPermits == 1
\* The permits a semaphore object was made with: those of the table with
\* Semaphore(1), the one of an account's __init__ with Semaphore(2)
SemaphoreValue(o) == IF o = PyOpaque(TableSem) THEN TableSemPermits ELSE SemPermits

\* self.tasks as __init__ makes it
ConstructedTasks == PyDict(("text" :> PyNone) @@ ("voice" :> PyNone))

\* CONVERSION_ATTRS: per class its attributes, the attributes set at the
\* restore with their values, and the attributes converted by a lambda.
Registered == {"ACCOUNT", "GUILD", "TextMESSAGE", "AutoGUILD", "AutoCHANNEL"}
ConversionAttrs(cls) ==
    CASE cls = "ACCOUNT" ->
            [attrs |-> {"_token", "_servers", "_running", "tasks", "_update_sem",
                        "_client"},
             attrs_restore |-> ("tasks" :> PyList(<<>>)) @@ ("_update_sem" :> PyOpaque(TableSem))
                               @@ ("_running" :> PyBool(FALSE)) @@ ("_client" :> PyNone),
             attrs_convert |-> {},
             attrs_skip |-> {}]
      [] cls = "GUILD" ->
            [attrs |-> {"_apiobject", "_messages", "update_semaphore", "parent"},
             attrs_restore |-> ("update_semaphore" :> PyOpaque(TableSem)) @@ ("parent" :> PyNone),
             attrs_convert |-> {"_apiobject"},
             attrs_skip |-> {}]
      [] cls = "TextMESSAGE" ->
            [attrs |-> {"data", "update_semaphore", "parent", "sent_messages"},
             attrs_restore |-> ("update_semaphore" :> PyOpaque(TableSem)) @@ ("parent" :> PyNone)
                               @@ ("sent_messages" :> PyDict(NoFields)),
             attrs_convert |-> {},
             attrs_skip |-> {}]
      [] cls = "AutoGUILD" ->
            [attrs |-> {"_safe_sem", "parent", "guild_query_iter", "cache"},
             attrs_restore |-> ("_safe_sem" :> PyOpaque(TableSem)) @@ ("parent" :> PyNone)
                               @@ ("guild_query_iter" :> PyNone)
                               @@ ("cache" :> PyDict(NoFields)),
             attrs_convert |-> {},
             attrs_skip |-> {}]
      [] cls = "AutoCHANNEL" ->
            [attrs |-> {"parent", "cache"},
             attrs_restore |-> ("parent" :> PyNone) @@ ("cache" :> PySet(<<>>)),
             attrs_convert |-> {},
             attrs_skip |-> {}]

\* attrs_convert of GUILD: lambda guild: guild._apiobject.id
Converted(o, k) == PyInt(o.v.f[k].v)

\* Mutant of Kept: the attributes set at the restore are encoded as well.
KeptAll(cls) == ConversionAttrs(cls).attrs

\* The attributes _convert_json_slots encodes: those it does not `continue`
\* over.
Kept(cls) ==
    {k \in ConversionAttrs(cls).attrs :
        ~(k \in DOMAIN ConversionAttrs(cls).attrs_restore
          \/ k \in ConversionAttrs(cls).attrs_skip)}

\* convert_object_to_semi_dict
RECURSIVE ConvertObjectToSemiDict(_)
ConvertObjectToSemiDict(o) ==
    CASE o.t \in PrimTypes -> IF o.t = "dec" THEN PyFloat(o.v) ELSE o
      [] o.t \in {"set", "list", "tuple"} ->
            PyList([i \in 1..Len(o.v) |-> ConvertObjectToSemiDict(o.v[i])])
      [] o.t = "dict" ->
            PyDict([k \in DOMAIN o.v |-> ConvertObjectToSemiDict(o.v[k])])
      [] o.t = "obj" /\ o.v.cls \in Registered ->
            PyDict(("object_type" :> PyStr(o.v.cls)) @@
                 ("data" :> PyDict([k \in Kept(o.v.cls) |->
                        ConvertObjectToSemiDict(
                            IF k \in ConversionAttrs(o.v.cls).attrs_convert
                            THEN Converted(o, k) ELSE o.v.f[k])])))
      [] OTHER -> o

\* Mutant of ListItem: every item of a list is decoded.
ListItemAlways(x, decoded) == decoded

\* What the list branch of convert_from_semi_dict appends for the item x,
\* `decoded` being convert_from_semi_dict(x)
ListItem(x, decoded) == IF x.t = "dict" THEN decoded ELSE x

\* Mutant of Restored: the attributes of the data are set last.
RestoredFirst(cls, set) ==
    LET restore == ConversionAttrs(cls).attrs_restore
    IN  [k \in DOMAIN set \cup DOMAIN restore |->
            IF k \in DOMAIN set THEN set[k] ELSE restore[k]]

\* The attributes of the new instance: those of the data are set, then those
\* of attrs_restore (a copy of the value of the table).
Restored(cls, set) ==
    LET restore == ConversionAttrs(cls).attrs_restore
    IN  [k \in DOMAIN set \cup DOMAIN restore |->
            IF k \in DOMAIN restore THEN restore[k] ELSE set[k]]

\* An exception of the type e leaves the call; it has no value.
PyRaise(e) == [t |-> "raise", v |-> e]

\* object_type strings that name no class of a module that can be imported:
\* one without a dot (the module path is empty), one of a module that does
\* not exist, one of a class the module does not have
NoDotTag == "X"
NoModuleTag == "nomodule.X"
NoClassTag == "daf.client.Nope"

\* A class that can be imported and has no entry in CONVERSION_ATTRS
Importable == {"Namespace"}

\* Mutant of Resolve: a class is found for every object_type.
ResolveAnything(tag) == "none"

\* importlib.import_module(module_path) and getattr(module, class_name):
\* "none" when the class is found, else the exception raised
Resolve(tag) ==
    CASE tag \in Registered \cup Importable -> "none"
      [] tag = NoDotTag -> "ValueError"
      [] tag = NoModuleTag -> "ModuleNotFoundError"
      [] OTHER -> "AttributeError"

\* The exception that leaves a loop over the values S, PyNone when none does
Raise(S) ==
    IF \E x \in S : x.t = "raise" THEN CHOOSE x \in S : x.t = "raise" ELSE PyNone

\* convert_from_semi_dict
RECURSIVE ConvertFromSemiDict(_)
ConvertFromSemiDict(d) ==
    CASE d.t = "list" ->
            LET items == [i \in 1..Len(d.v) |->
                            ListItem(d.v[i], ConvertFromSemiDict(d.v[i]))]
                exc == Raise({items[i] : i \in 1..Len(d.v)})
            IN  IF exc.t = "raise" THEN exc ELSE PyList(items)
      [] d.t = "dict" /\ "object_type" \notin DOMAIN d.v ->
            LET data == [k \in DOMAIN d.v |-> ConvertFromSemiDict(d.v[k])]
                exc == Raise({data[k] : k \in DOMAIN d.v})
            IN  IF exc.t = "raise" THEN exc ELSE PyDict(data)
      [] d.t = "dict" /\ "object_type" \in DOMAIN d.v ->
            LET cls == d.v["object_type"].v
                data == d.v["data"].v
                set == [k \in DOMAIN data |->
                            IF data[k].t \in {"dict", "list"}
                            THEN ConvertFromSemiDict(data[k]) ELSE data[k]]
                exc == Raise({set[k] : k \in DOMAIN data})
            IN  IF Resolve(cls) # "none" THEN PyRaise(Resolve(cls))
                ELSE IF exc.t = "raise" THEN exc
                ELSE PyObject(cls, IF cls \in Registered THEN Restored(cls, set) ELSE set)
      [] OTHER -> d

\* pickle.dumps / pickle.loads and base64.b64encode / base64.b64decode: the
\* bytes hold the value (of lists, mappings and primitives, each with its
\* type) and give it back.
PickleDumps(x) == [t |-> "pickle", v |-> x]
PickleLoads(b) == IF b.t = "pickle" THEN b.v ELSE PyRaise("UnpicklingError")
B64Encode(b) == [t |-> "b64", v |-> b]
B64Decode(x) == IF x.t = "b64" THEN x.v ELSE PyRaise("binascii.Error")

\* convert_object_to_pickle_b64
ConvertObjectToPickleB64(d) == B64Encode(PickleDumps(ConvertObjectToSemiDict(d)))

\* convert_from_pickle_b64
ConvertFromPickleB64(data) == PickleLoads(B64Decode(data))

\* The objects of the restore: an object is <<n, cls, k>>, the value of the
\* attribute k of attrs_restore of the class cls made for the n-th decoded
\* object, n = 0 being the value CONVERSION_ATTRS itself holds.
TableObject(cls, k) == <<0, cls, k>>

\* The values of attrs_restore that can be changed in place: the lists, the
\* mappings, the sets and the semaphores
MutableRestored(cls) ==
    {k \in DOMAIN ConversionAttrs(cls).attrs_restore :
        ConversionAttrs(cls).attrs_restore[k].t \in {"list", "dict", "set", "opaque"}}
TableObjects ==
    UNION {{TableObject(cls, k) : k \in MutableRestored(cls)} : cls \in Registered}

\* Mutant of CopyCopy: the value of the table is set as it is.
NotCopied(v, fresh) == v

\* copy.copy(v): another object (with the items v has at that time)
CopyCopy(v, fresh) == fresh

\* No object has been decoded: heap gives for each object the number of
\* changes made to it since CONVERSION_ATTRS was built, decoded the objects
\* made by the decoder.
NoRst == [heap |-> [o \in TableObjects |-> 0], decoded |-> <<>>]

\* Nothing has been made yet.
NoCod == [pc |-> "none", obj |-> PyNone, enc |-> PyNone, dec |-> PyNone, tampered |-> FALSE]

\* ------------------------------------------------------------------- Init
Init == AccountInit /\ msg = NoMsg /\ cod = NoCod /\ rst = NoRst /\ ini = NoIni /\ cmp = NoCmp /\ grd = NoGrd /\ tck = NoTck

\* A call starts: the caller is in no call and has calls left.
CanCall == cop = "idle" /\ nOps < MaxOps

\* ------------------------------------------------------------- initialize
\* Mutant of LoginFailure: the except branch swallows the timeout.
LoginSwallowed == "none"

\* The except branch of initialize: self.tasks["client"] is looked up before
\* the RuntimeError is built; a missing key raises KeyError instead.
LoginFailure == IF "client" \in DOMAIN tasks THEN "RuntimeError" ELSE "KeyError"

CallInitialize ==
    /\ CanCall
    /\ \A k \in Kinds : tasks[k] = 0
    /\ cop' = "initialize"
    /\ cpc' = "login"
    /\ nOps' = nOps + 1
    /\ entry' = EntryState
    /\ initOk' = <<>>
    /\ UNCHANGED <<acctVars, permits, loops, invalid, cerr, cArg, cIdx, cList, cHeld>>
    /\ UNCHANGED objVars

\* await self._client.wait_for("ready", timeout=LOGIN_TIMEOUT_S) returns or
\* times out.
Login ==
    /\ cpc = "login"
    /\ \E ok \in BOOLEAN :
        IF ok
        THEN /\ clientState' = "ready"
             /\ cpc' = "add"
             /\ cIdx' = 1
             /\ cerr' = cerr
        ELSE /\ cerr' = LoginFailure
             /\ cpc' = "ret"
             /\ UNCHANGED <<clientState, cIdx>>
    /\ UNCHANGED <<token, running, tasks, servers, autoguilds, uiservers, semId,
                   clientCloses, nConstr, permits, loops, invalid, cop, cArg,
                   cList, cHeld, nOps, entry, initOk>>
    /\ UNCHANGED objVars

\* Mutant of Appended: every destination is appended to _servers.
AppendedToServers(d) == <<Append(servers, d), autoguilds>>

\* add_server's two lists after server.initialize(parent=self) succeeded
Appended(d) ==
    IF IsBaseGuild(d)
    THEN <<Append(servers, d), autoguilds>>
    ELSE <<servers, Append(autoguilds, d)>>

\* One turn of `for server in self._uiservers`: add_server, whose exception is
\* traced as a warning.
InitAdd ==
    /\ cpc = "add"
    /\ cIdx <= Len(uiservers)
    /\ \E ok \in BOOLEAN :
        LET d == uiservers[cIdx] IN
        IF ok
        THEN /\ servers' = Appended(d)[1]
             /\ autoguilds' = Appended(d)[2]
             /\ initOk' = Append(initOk, d)
        ELSE UNCHANGED <<servers, autoguilds, initOk>>
    /\ cIdx' = cIdx + 1
    /\ UNCHANGED <<token, running, tasks, uiservers, semId, clientState,
                   clientCloses, nConstr, permits, loops, invalid, cop, cpc,
                   cerr, cArg, cList, cHeld, nOps, entry>>
    /\ UNCHANGED objVars

\* Mutant of NewLoop: the task runs as soon as it is created, before _running
\* is set, and leaves its while loop at once.
RunAtOnce == Ended("done")

\* The loop task created by asyncio.create_task(self._loop(...)): not yet run
NewLoop == [NoLoop EXCEPT !.pc = "start"]

\* self.tasks after the two create_task calls of initialize
CreatedTasks == [k \in Kinds |-> nConstr]

\* The end of initialize: the list is cleared, both tasks are created and
\* _running is set.  In update, misc._update returns and update_servers is
\* called.
InitStart ==
    /\ cpc = "add"
    /\ cIdx > Len(uiservers)
    /\ uiservers' = <<>>
    /\ tasks' = CreatedTasks
    /\ loops' = [t \in TaskIds |->
                    IF CreatedTasks[t[1]] = t[2] THEN NewLoop ELSE loops[t]]
    /\ running' = TRUE
    /\ cpc' = IF cop = "update" THEN "upd_acq" ELSE "ret"
    /\ cIdx' = 0
    /\ UNCHANGED <<token, servers, autoguilds, semId, clientState, clientCloses,
                   nConstr, permits, invalid, cop, cerr, cArg, cList, cHeld,
                   nOps, entry, initOk>>
    /\ UNCHANGED objVars

\* The call returns or raises to the caller.
Return ==
    /\ cpc = "ret"
    /\ cop' = "idle"
    /\ cpc' = "idle"
    /\ cerr' = "none"
    /\ cArg' = "keep"
    /\ cIdx' = 0
    /\ cList' = <<>>
    /\ entry' = NoEntry
    /\ initOk' = <<>>
    /\ UNCHANGED <<acctVars, permits, loops, invalid, cHeld, nOps>>
    /\ UNCHANGED objVars

\* ------------------------------------------------- add_server / remove_server
\* add_server(d): await d.initialize(parent=self), then the append; an
\* exception of d.initialize reaches the caller.
AddServer(d) ==
    /\ CanCall
    /\ ~InList(Servers, d)
    /\ \E ok \in BOOLEAN :
        IF ok
        THEN /\ servers' = Appended(d)[1]
             /\ autoguilds' = Appended(d)[2]
             /\ cerr' = "none"
        ELSE /\ cerr' = "InitError"
             /\ UNCHANGED <<servers, autoguilds>>
    /\ cop' = "add_server"
    /\ cpc' = "ret"
    /\ nOps' = nOps + 1
    /\ entry' = EntryState
    /\ UNCHANGED <<token, running, tasks, uiservers, semId, clientState,
                   clientCloses, nConstr, permits, loops, invalid, cArg, cIdx,
                   cList, cHeld, initOk>>
    /\ UNCHANGED objVars

\* remove_server(d) on the lists sv, ag: list.remove raises ValueError when d
\* is not in the list of its category.
CanRemove(d, sv, ag) == IF IsBaseGuild(d) THEN InList(sv, d) ELSE InList(ag, d)
\* Mutant of Removed: every occurrence of the destination is taken out.
RemovedAll(d, sv, ag) ==
    IF IsBaseGuild(d)
    THEN <<SelectSeq(sv, LAMBDA x : x # d), ag>>
    ELSE <<sv, SelectSeq(ag, LAMBDA x : x # d)>>

Removed(d, sv, ag) ==
    IF IsBaseGuild(d) THEN <<RemoveFirst(sv, d), ag>> ELSE <<sv, RemoveFirst(ag, d)>>

RemoveServer(d) ==
    /\ CanCall
    /\ IF CanRemove(d, servers, autoguilds)
       THEN /\ servers' = Removed(d, servers, autoguilds)[1]
            /\ autoguilds' = Removed(d, servers, autoguilds)[2]
            /\ cerr' = "none"
       ELSE /\ cerr' = "ValueError"
            /\ UNCHANGED <<servers, autoguilds>>
    /\ cop' = "remove_server"
    /\ cpc' = "ret"
    /\ nOps' = nOps + 1
    /\ entry' = EntryState
    /\ UNCHANGED <<token, running, tasks, uiservers, semId, clientState,
                   clientCloses, nConstr, permits, loops, invalid, cArg, cIdx,
                   cList, cHeld, initOk>>
    /\ UNCHANGED objVars

\* ----------------------------------------------------------------- close
\* Mutant of GatherReady: close() does not wait for the tasks.
GatherNoWait == TRUE

\* What `await asyncio.gather(*self.tasks.values(), return_exceptions=True)`
\* waits for: both tasks of self.tasks have ended, normally or by an exception.
GatherReady == \A k \in Kinds : Terminated(<<k, tasks[k]>>)

\* close() up to its first suspension point: _running is cleared and gather is
\* called, which raises TypeError when a value of self.tasks is None.
CloseBegin(op, arg) ==
    /\ CanCall
    /\ cop' = op
    /\ cArg' = arg
    /\ nOps' = nOps + 1
    /\ entry' = EntryState
    /\ running' = FALSE
    /\ IF \E k \in Kinds : tasks[k] = 0
       THEN cerr' = "TypeError" /\ cpc' = "ret"
       ELSE cerr' = "none" /\ cpc' = "gather"
    /\ UNCHANGED <<token, tasks, servers, autoguilds, uiservers, semId,
                   clientState, clientCloses, nConstr, permits, loops, invalid,
                   cIdx, cList, cHeld, initOk>>
    /\ UNCHANGED objVars

CallClose == CloseBegin("close", "keep")

\* update(**kwargs) starts with close(); the token keyword defaults to the
\* account's token.
CallUpdate == \E arg \in {"keep"} \cup Tokens : CloseBegin("update", arg)

\* Mutant of WriteAttrOnce: a plain assignment.
WriteAttrAlways(cur, new) == new

\* misc._write_attr_once(self, "_update_sem", asyncio.Semaphore(2)): the
\* attribute is written when the object does not have it yet (0).
WriteAttrOnce(cur, new) == IF cur # 0 THEN cur ELSE new

\* Mutant of CloseEnd: close() drops the handles of the tasks it awaited.
CloseEndDropsTasks == [tasks |-> [k \in Kinds |-> 0], clientState |-> "closed"]

\* The handles and the connection when close() returns: self.tasks is left as
\* it is, the client is closed.
CloseEnd == [tasks |-> tasks, clientState |-> "closed"]

\* close(): gather returns, self._client.close() is called and close()
\* returns.
CloseReturn ==
    /\ cop = "close"
    /\ cpc = "gather"
    /\ GatherReady
    /\ clientCloses' = clientCloses + 1
    /\ clientState' = CloseEnd.clientState
    /\ tasks' = CloseEnd.tasks
    /\ cpc' = "ret"
    /\ UNCHANGED <<token, running, servers, autoguilds, uiservers, semId, nConstr,
                   permits, loops, invalid, cop, cerr, cArg, cIdx, cList, cHeld,
                   nOps, entry, initOk>>
    /\ UNCHANGED objVars

\* Mutant of ConstructedList: __init__ leaves a list it finds as it is.
KeptList(cur) == cur

\* self._servers = [] and self._autoguilds = [] of __init__: a new empty list,
\* whatever the attribute held
ConstructedList(cur) == <<>>

\* update(): its close() returns as above and misc._update follows: __init__
\* runs again with the merged parameters (the token given, servers read from
\* the servers property), which makes a new client and resets the flag, the
\* handles and the lists; then initialize() is called, which suspends in the
\* login.
UpdateReconstruct ==
    /\ cop = "update"
    /\ cpc = "gather"
    /\ GatherReady
    /\ clientCloses' = clientCloses + 1
    /\ token' = IF cArg = "keep" THEN token ELSE cArg
    /\ running' = FALSE
    /\ tasks' = [k \in Kinds |-> 0]
    /\ servers' = ConstructedList(servers)
    /\ autoguilds' = ConstructedList(autoguilds)
    /\ uiservers' = Servers
    /\ clientState' = "new"
    /\ nConstr' = nConstr + 1
    /\ semId' = WriteAttrOnce(semId, nConstr + 1)
    /\ permits' = [permits EXCEPT ![nConstr + 1] = SemPermits]
    /\ cpc' = "login"
    /\ UNCHANGED <<loops, invalid, cop, cerr, cArg, cIdx, cList, cHeld, nOps,
                   entry, initOk>>
    /\ UNCHANGED objVars

\* ---------------------------------------------------------------- update
\* update_servers: _async_safe("_update_sem", 2) acquires the permits one
\* after the other; with the last one the for loop starts on self.servers.
UpdAcquire ==
    /\ cpc = "upd_acq"
    /\ permits[semId] >= 1
    /\ permits' = [permits EXCEPT ![semId] = @ - 1]
    /\ cHeld' = cHeld + 1
    /\ IF cHeld + 1 = UpdateAmount
       THEN cpc' = "upd_srv" /\ cList' = Servers /\ cIdx' = 1
       ELSE UNCHANGED <<cpc, cList, cIdx>>
    /\ UNCHANGED <<acctVars, loops, invalid, cop, cerr, cArg, nOps, entry, initOk>>
    /\ UNCHANGED objVars

\* await server.update(init_options={"parent": self}) of one destination
UpdServer ==
    /\ cpc = "upd_srv"
    /\ cIdx <= Len(cList)
    /\ cIdx' = cIdx + 1
    /\ UNCHANGED <<acctVars, permits, loops, invalid, cop, cpc, cerr, cArg, cList,
                   cHeld, nOps, entry, initOk>>
    /\ UNCHANGED objVars

\* The for loop is over: _async_safe gives the permits back, update returns.
UpdDone ==
    /\ cpc = "upd_srv"
    /\ cIdx > Len(cList)
    /\ permits' = [permits EXCEPT ![semId] = @ + cHeld]
    /\ cHeld' = 0
    /\ cpc' = "ret"
    /\ UNCHANGED <<acctVars, loops, invalid, cop, cerr, cArg, cIdx, cList, nOps,
                   entry, initOk>>
    /\ UNCHANGED objVars

\* ------------------------------------------------------------------ _loop
\* Mutant of TickList: the for loop iterates the account's lists themselves.
TickListLive(snap) == Servers

\* The list `for server in self.servers` iterates: the list the property
\* built when the for statement started.
TickList(snap) == snap

\* The for loop of __loop from position i on, up to its next suspension point:
\* a destination whose _check_state() is true is removed from the account's
\* lists (remove_server raises when it is no longer there) and the loop goes
\* on; the first other destination is advertised, which suspends.
RECURSIVE Iterate(_, _, _, _, _)
Iterate(list, i, sv, ag, vis) ==
    IF i > Len(list)
    THEN [out |-> "end", idx |-> i, sv |-> sv, ag |-> ag, vis |-> vis, stale |-> FALSE]
    ELSE LET d == list[i] IN
         IF CheckState(d)
         THEN IF CanRemove(d, sv, ag)
              THEN Iterate(list, i + 1, Removed(d, sv, ag)[1], Removed(d, sv, ag)[2],
                           Append(vis, d))
              ELSE [out |-> "raise", idx |-> i, sv |-> sv, ag |-> ag,
                    vis |-> Append(vis, d), stale |-> TRUE]
         ELSE [out |-> "adv", idx |-> i, sv |-> sv, ag |-> ag, vis |-> Append(vis, d),
               stale |-> ~InList(sv \o ag, d)]

\* The loop task t after Iterate returned r: suspended in _advertise, or out
\* of __loop (normally or by the exception), the permit given back by
\* _async_safe.
LoopContinue(t, r, snap) ==
    /\ servers' = r.sv
    /\ autoguilds' = r.ag
    /\ IF r.out = "adv"
       THEN /\ loops' = [loops EXCEPT ![t] =
                            [pc |-> "adv", snap |-> snap, idx |-> r.idx, pairs |-> 0,
                             sem |-> loops[t].sem, visited |-> r.vis,
                             stale |-> r.stale]]
            /\ UNCHANGED permits
       ELSE /\ loops' = [loops EXCEPT ![t] =
                            IF r.out = "raise" THEN Ended("error")
                            ELSE [NoLoop EXCEPT !.pc = "top"]]
            /\ permits' = [permits EXCEPT ![loops[t].sem] = @ + LoopAmount]

\* Mutant of WhileRunning: `while True:`.
WhileTrue == TRUE

\* The condition of `while self._running:`
WhileRunning == running

\* `while self._running:` and the acquire of _async_safe.
LoopTop(t) ==
    /\ cpc # "ret"
    /\ loops[t].pc \in {"start", "top"}
    /\ IF ~WhileRunning
       THEN /\ loops' = [loops EXCEPT ![t] = Ended("done")]
            /\ UNCHANGED permits
       ELSE IF permits[semId] >= LoopAmount
       THEN /\ loops' = [loops EXCEPT ![t] = [NoLoop EXCEPT !.pc = "sleep", !.sem = semId]]
            /\ permits' = [permits EXCEPT ![semId] = @ - LoopAmount]
       ELSE /\ loops' = [loops EXCEPT ![t] = [NoLoop EXCEPT !.pc = "waitsem", !.sem = semId]]
            /\ UNCHANGED permits
    /\ UNCHANGED <<acctVars, invalid, callVars>>
    /\ UNCHANGED objVars

\* The acquire the task waited in returns.
LoopAcquire(t) ==
    /\ cpc # "ret"
    /\ loops[t].pc = "waitsem"
    /\ permits[loops[t].sem] >= LoopAmount
    /\ loops' = [loops EXCEPT ![t].pc = "sleep"]
    /\ permits' = [permits EXCEPT ![loops[t].sem] = @ - LoopAmount]
    /\ UNCHANGED <<acctVars, invalid, callVars>>
    /\ UNCHANGED objVars

\* asyncio.sleep returns: self.servers is read and the for loop starts.
LoopWake(t) ==
    /\ cpc # "ret"
    /\ loops[t].pc = "sleep"
    /\ LoopContinue(t, Iterate(TickList(Servers), 1, servers, autoguilds, <<>>), Servers)
    /\ UNCHANGED <<token, running, tasks, uiservers, semId, clientState,
                   clientCloses, nConstr, invalid, callVars>>
    /\ UNCHANGED objVars

\* Mutant of ReleasedOnReturn: the `return` of __loop keeps the permit.
KeptOnReturn == LoopAmount - 1

\* What _async_safe gives back when __loop leaves by its `return`: what it
\* took.
ReleasedOnReturn == LoopAmount

\* _advertise yields a pair: save_log when a message was sent, then the check
\* of _running, which leaves __loop; the while condition is evaluated next,
\* with no suspension point in between.
LoopYield(t) ==
    /\ cpc # "ret"
    /\ loops[t].pc = "adv"
    /\ loops[t].pairs < MaxPairs
    /\ IF ~running
       THEN /\ loops' = [loops EXCEPT ![t] =
                            IF WhileRunning THEN [NoLoop EXCEPT !.pc = "top"]
                            ELSE Ended("done")]
            /\ permits' = [permits EXCEPT ![loops[t].sem] = @ + ReleasedOnReturn]
       ELSE /\ loops' = [loops EXCEPT ![t].pairs = @ + 1]
            /\ UNCHANGED permits
    /\ UNCHANGED <<acctVars, invalid, callVars>>
    /\ UNCHANGED objVars

\* _advertise is exhausted: the for loop goes on with the next destination.
LoopAdvEnd(t) ==
    /\ cpc # "ret"
    /\ loops[t].pc = "adv"
    /\ LoopContinue(t, Iterate(TickList(loops[t].snap), loops[t].idx + 1, servers,
                               autoguilds, loops[t].visited), loops[t].snap)
    /\ UNCHANGED <<token, running, tasks, uiservers, semId, clientState,
                   clientCloses, nConstr, invalid, callVars>>
    /\ UNCHANGED objVars

\* A destination is gone (the account was kicked, the guild deleted): from now
\* on its _check_state() is true.
Invalidate(d) ==
    /\ cpc # "ret"
    /\ d \notin invalid
    /\ invalid' = invalid \cup {d}
    /\ UNCHANGED <<acctVars, permits, loops, callVars>>
    /\ UNCHANGED objVars

Next ==
    \/ CallInitialize
    \/ Login
    \/ InitAdd
    \/ InitStart
    \/ \E d \in Dests : AddServer(d)
    \/ \E d \in Dests : RemoveServer(d)
    \/ CallClose
    \/ CallUpdate
    \/ CloseReturn
    \/ UpdateReconstruct
    \/ UpdAcquire
    \/ UpdServer
    \/ UpdDone
    \/ \E t \in TaskIds : LoopTop(t)
    \/ \E t \in TaskIds : LoopAcquire(t)
    \/ \E t \in TaskIds : LoopWake(t)
    \/ \E t \in TaskIds : LoopYield(t)
    \/ \E t \in TaskIds : LoopAdvEnd(t)
    \/ \E d \in Dests : Invalidate(d)
    \/ Return

Spec == Init /\ [][Next]_vars
\* The event loop runs every task that is ready, and the awaited collaborator
\* calls (sleep, _advertise, save_log, gather, the client's close) return: the
\* loop tasks and the pending close of the caller keep making steps.
LoopStep(t) == LoopTop(t) \/ LoopAcquire(t) \/ LoopWake(t) \/ LoopYield(t) \/ LoopAdvEnd(t)
FairSpec ==
    /\ Spec
    /\ \A t \in TaskIds : WF_vars(LoopStep(t))
    /\ WF_vars(CloseReturn)
    /\ WF_vars(UpdateReconstruct)
    /\ WF_vars(Return)

\* ------------------------------------------------- a message and its timer
\* A message has been constructed; the account plays no part.
MsgInit ==
    /\ AccountInit
    /\ uiservers = <<>>
    /\ msg \in Messages
    /\ cod = NoCod
    /\ rst = NoRst
    /\ ini = NoIni
    /\ cmp = NoCmp
    /\ grd = NoGrd
    /\ tck = NoTck

\* Time passes.
TimePasses ==
    /\ msg.state = "ok"
    /\ msg.elapsed < MaxTime
    /\ msg' = [msg EXCEPT !.elapsed = @ + 1, !.op = "time"]
    /\ UNCHANGED notMsg

\* is_ready() is called and its result kept.
CallIsReady ==
    /\ msg.state = "ok"
    /\ msg' = [msg EXCEPT !.op = "is_ready", !.ready = IsReady(msg)]
    /\ UNCHANGED notMsg

\* reset_timer() is called.
CallResetTimer ==
    /\ msg.state = "ok"
    /\ \E p \in Redraws(msg) :
        msg' = [TimerReset(msg, p) EXCEPT !.op = "reset", !.wasArmed = msg.enabled,
                                          !.rearmed = FALSE, !.pristine = FALSE,
                                          !.reset = TRUE]
    /\ UNCHANGED notMsg

\* A scheduler tick reaches the message, the poll delay having passed: a
\* message that is ready has its timer reset and is sent; a send that fails
\* arms the forced retry.
MsgTick ==
    /\ msg.state = "ok"
    /\ msg.elapsed < MaxTime
    /\ LET now == [msg EXCEPT !.elapsed = @ + 1]
           m == IF msg.first # "none" THEN now
                ELSE [now EXCEPT !.first = IF ~msg.pristine THEN "other"
                                           ELSE IF IsReady(now) THEN "sent"
                                           ELSE "waited",
                                 !.firstAt = now.elapsed,
                                 !.firstPeriod = now.period]
       IN  IF IsReady(m)
           THEN \E p \in Redraws(m), delay \in {NoPeriod} \cup (0..MaxPeriod) :
                   LET r == [TimerReset(m, p) EXCEPT !.op = "send", !.wasArmed = m.enabled,
                                                     !.rearmed = FALSE, !.reset = TRUE]
                   IN  msg' = IF delay = NoPeriod THEN r ELSE Rearm(r, delay)
           ELSE msg' = [m EXCEPT !.op = "tick"]
    /\ UNCHANGED notMsg

MsgNext ==
    \/ TimePasses
    \/ CallIsReady
    \/ CallResetTimer
    \/ MsgTick

MsgSpec == MsgInit /\ [][MsgNext]_vars

\* ------------------------------------------------ encoding and decoding
\* Values of the data attribute of a message
DataValues ==
    {PyInt(1), PyStr("a"), PyDecimal(1), PyList(<<PyInt(1)>>),
     PyTuple(<<PyInt(1), PyInt(2)>>), PySet(<<PyInt(1)>>), PyDict("a" :> PyInt(1)),
     PyList(<<PyList(<<PyInt(1)>>)>>), PyDict("a" :> PyList(<<PyInt(1)>>))}

\* TextMESSAGE objects in use: the parent and the semaphore are set, messages
\* may have been sent.
TextMessage(data, parent, sent) ==
    PyObject("TextMESSAGE",
             ("data" :> data) @@ ("update_semaphore" :> PyOpaque(LiveSem))
             @@ ("parent" :> parent) @@ ("sent_messages" :> sent))
TextMessages ==
    {TextMessage(d, p, s) :
        d \in DataValues, p \in {PyNone, PyOpaque(Owner)},
        s \in {PyDict(NoFields), PyDict("c" :> PyInt(1))}}
Msg1 == TextMessage(PyInt(1), PyOpaque(Owner), PyDict(NoFields))
Msg2 == TextMessage(PyStr("a"), PyOpaque(Owner), PyDict("c" :> PyInt(1)))

\* GUILD objects
Guild(messages, parent) ==
    PyObject("GUILD",
             ("_apiobject" :> PyOpaque(ApiObject)) @@ ("_messages" :> messages)
             @@ ("update_semaphore" :> PyOpaque(LiveSem)) @@ ("parent" :> parent))
Guilds ==
    {Guild(m, p) :
        m \in {PyList(<<>>), PyList(<<Msg1>>), PyList(<<Msg1, Msg2>>),
               PyList(<<PyList(<<Msg1>>)>>), PyTuple(<<Msg1>>), PyDict("m" :> Msg1),
               PyList(<<PyDict("m" :> Msg1)>>), PyDict("m" :> PyList(<<Msg1>>))},
        p \in {PyNone, PyOpaque(Owner)}}
Guild1 == Guild(PyList(<<Msg1>>), PyOpaque(Owner))
Guild2 == Guild(PyList(<<>>), PyOpaque(Owner))

\* ACCOUNT objects, running or not
Account(srv, run, tsk) ==
    PyObject("ACCOUNT",
             ("_token" :> PyStr("t1")) @@ ("_servers" :> srv) @@ ("_running" :> PyBool(run))
             @@ ("tasks" :> tsk) @@ ("_update_sem" :> PyOpaque(LiveSem))
             @@ ("_client" :> IF run THEN PyOpaque(ApiObject) ELSE PyNone))
Accounts ==
    {Account(srv, run, tsk) :
        srv \in {PyList(<<>>), PyList(<<Guild1>>), PyList(<<Guild1, Guild2>>)},
        run \in BOOLEAN,
        tsk \in {PyList(<<>>), PyDict(("text" :> PyOpaque(Owner)) @@ ("voice" :> PyOpaque(Owner)))}}

\* An object of a registered class exists.
CodecInit ==
    /\ AccountInit
    /\ uiservers = <<>>
    /\ msg = NoMsg
    /\ rst = NoRst
    /\ ini = NoIni
    /\ cmp = NoCmp
    /\ grd = NoGrd
    /\ tck = NoTck
    /\ cod \in {[NoCod EXCEPT !.pc = "made", !.obj = o] :
                    o \in TextMessages \cup Guilds \cup Accounts}

\* convert_object_to_semi_dict(obj)
CodEncode ==
    /\ cod.pc = "made"
    /\ cod' = [cod EXCEPT !.pc = "encoded", !.enc = ConvertObjectToSemiDict(cod.obj)]
    /\ UNCHANGED notCod

\* The semi-dict comes with an entry for an attribute of attrs_restore (it
\* was written by hand, or by another version).
CodTamper ==
    /\ cod.pc = "encoded"
    /\ ~cod.tampered
    /\ \E k \in DOMAIN ConversionAttrs(cod.obj.v.cls).attrs_restore :
        cod' = [cod EXCEPT !.tampered = TRUE,
                           !.enc.v["data"].v = (k :> cod.obj.v.f[k]) @@ @]
    /\ UNCHANGED notCod

\* The semi-dict comes with another object_type: the class was renamed or
\* removed since the value was written, or is one the encoder never writes.
CodRetag ==
    /\ cod.pc = "encoded"
    /\ ~cod.tampered
    /\ \E tag \in Importable \cup {NoDotTag, NoModuleTag, NoClassTag} :
        cod' = [cod EXCEPT !.tampered = TRUE,
                           !.enc.v["object_type"] = PyStr(tag)]
    /\ UNCHANGED notCod

\* convert_from_semi_dict(enc): it returns the decoded value, or an exception
\* leaves it and there is no value (dec then holds the exception).
CodDecode ==
    /\ cod.pc = "encoded"
    /\ LET r == ConvertFromSemiDict(cod.enc)
       IN  cod' = [cod EXCEPT !.pc = IF r.t = "raise" THEN "raised" ELSE "decoded",
                              !.dec = r]
    /\ UNCHANGED notCod

\* convert_object_to_pickle_b64(obj)
CodPickle ==
    /\ cod.pc = "made"
    /\ cod' = [cod EXCEPT !.pc = "pickled", !.enc = ConvertObjectToPickleB64(cod.obj)]
    /\ UNCHANGED notCod

\* convert_from_pickle_b64(enc)
CodUnpickle ==
    /\ cod.pc = "pickled"
    /\ cod' = [cod EXCEPT !.pc = "unpickled", !.dec = ConvertFromPickleB64(cod.enc)]
    /\ UNCHANGED notCod

CodecNext ==
    \/ CodEncode
    \/ CodTamper
    \/ CodRetag
    \/ CodDecode
    \/ CodPickle
    \/ CodUnpickle

CodecSpec == CodecInit /\ [][CodecNext]_vars

\* ------------------------------------------------ initialize of a message
SeqsUpTo(S, n) == UNION {[1..k -> S] : k \in 0..n}

\* The data a message can be constructed with (a set holds no list)
GivenData ==
    {Data("one", <<x>>) : x \in DataTypes \ {"func", "list"}}
    \cup {Data("func", <<>>)}
    \cup {Data(kind, items) : kind \in {"list", "tuple"},
                              items \in SeqsUpTo(DataTypes, MaxItems)}
    \cup {Data("set", items) : items \in SeqsUpTo(DataTypes \ {"list"}, MaxItems)}

\* A message of an inherited class has been constructed.
InitializeInit ==
    /\ AccountInit
    /\ uiservers = <<>>
    /\ msg = NoMsg
    /\ cod = NoCod
    /\ rst = NoRst
    /\ cmp = NoCmp
    /\ grd = NoGrd
    /\ tck = NoTck
    /\ ini \in {[NoIni EXCEPT !.pc = "made", !.cls = cls, !.given = d, !.data = d] :
                    cls \in {"TextMESSAGE", "DirectMESSAGE", "VoiceMESSAGE"},
                    d \in GivenData}

\* initialize: await self.initialize_channels(**options), which returns or
\* raises
IniChannels ==
    /\ ini.pc = "made"
    /\ \E ok \in BOOLEAN :
        ini' = IF ok THEN [ini EXCEPT !.pc = "channels"]
               ELSE [ini EXCEPT !.pc = "raised", !.err = "channels"]
    /\ UNCHANGED notIni

\* initialize: await self.initialize_data()
IniData ==
    /\ ini.pc = "channels"
    /\ LET r == InitializeData(ini.cls, ini.data)
       IN  ini' = [ini EXCEPT !.pc = IF r.err = "none" THEN "ok" ELSE "raised",
                              !.err = r.err, !.data = r.data]
    /\ UNCHANGED notIni

InitializeNext ==
    \/ IniChannels
    \/ IniData

InitializeSpec == InitializeInit /\ [][InitializeNext]_vars

\* ------------------------------------------------ comparing accounts
AccountObjects ==
    {AccountObject(tok, run, srv) :
        tok \in Tokens, run \in BOOLEAN, srv \in {<<>>, <<1>>}}
\* Objects that are no ACCOUNT: a str that is the token of an account, an
\* int, None, a GUILD
OtherObjects ==
    {OtherObject("str", tok) : tok \in Tokens}
    \cup {OtherObject("int", "1"), OtherObject("NoneType", "None"), OtherObject("GUILD", "1")}

\* An account and another object exist.
CompareInit ==
    /\ AccountInit
    /\ uiservers = <<>>
    /\ msg = NoMsg
    /\ cod = NoCod
    /\ rst = NoRst
    /\ ini = NoIni
    /\ grd = NoGrd
    /\ tck = NoTck
    /\ cmp \in {[NoCmp EXCEPT !.pc = "made", !.self = a, !.other = b] :
                    a \in AccountObjects, b \in AccountObjects \cup OtherObjects}

\* self == other
CmpEq ==
    /\ cmp.pc = "made"
    /\ cmp' = [cmp EXCEPT !.pc = "done", !.res = AccountEq(cmp.self, cmp.other)]
    /\ UNCHANGED notCmp

CompareNext == CmpEq

CompareSpec == CompareInit /\ [][CompareNext]_vars

\* ------------------------------------------------ the account's semaphore
\* The account runs: its two loop tasks are about to enter __loop, no update
\* is being made.
GuardInit ==
    /\ AccountInit
    /\ uiservers = <<>>
    /\ msg = NoMsg
    /\ cod = NoCod
    /\ rst = NoRst
    /\ ini = NoIni
    /\ cmp = NoCmp
    /\ grd = [NoGrd EXCEPT !.st = [c \in GuardClients |->
                                        IF c \in Kinds THEN "top" ELSE "idle"]]
    /\ tck = NoTck

\* The first `await __loop(self)` of the loop task k
GrdLoopStart(k) ==
    /\ grd.st[k] = "top"
    /\ grd' = AcquireAll(grd, k)
    /\ UNCHANGED notGrd

\* A woken waiter goes on: it leaves the waiters, wakes the next one when a
\* permit is left, has its permit and goes on with its acquires.
GrdResume(c) ==
    /\ grd.st[c] = "woken"
    /\ LET left == [grd EXCEPT !.queue = SelectSeq(@, LAMBDA x : x # c),
                               !.held[c] = @ + 1]
       IN  grd' = AcquireAll(IF left.value > 0 THEN WakeUpNext(left) ELSE left, c)
    /\ UNCHANGED notGrd

\* __loop of the loop task k returns (the tick is over): its permit is given
\* back, `while self._running` holds and the next `await __loop(self)`
\* acquires, with no suspension point in between.
GrdTickEnds(k) ==
    /\ grd.st[k] = "in"
    /\ grd' = AcquireAll(ReleaseAll(grd, k), k)
    /\ UNCHANGED notGrd

\* A task calls update(), which gets as far as `await update_servers(self)`.
GrdUpdateServers(u) ==
    /\ grd.st[u] = "idle"
    /\ grd' = AcquireAll(grd, u)
    /\ UNCHANGED notGrd

\* update_servers returns: its permits are given back and update() returns.
GrdUpdateDone(u) ==
    /\ grd.st[u] = "in"
    /\ grd' = [ReleaseAll(grd, u) EXCEPT !.st[u] = "idle"]
    /\ UNCHANGED notGrd

GuardNext ==
    \/ \E k \in Kinds : GrdLoopStart(k)
    \/ \E c \in GuardClients : GrdResume(c)
    \/ \E k \in Kinds : GrdTickEnds(k)
    \/ \E u \in Updaters : GrdUpdateServers(u)
    \/ \E u \in Updaters : GrdUpdateDone(u)

GuardSpec == GuardInit /\ [][GuardNext]_vars

\* The event loop runs every coroutine that can go on, and the awaited calls
\* inside __loop and update_servers return; nobody has to call update().
FairGuardSpec ==
    /\ GuardSpec
    /\ \A k \in Kinds : WF_vars(GrdLoopStart(k))
    /\ \A c \in GuardClients : WF_vars(GrdResume(c))
    /\ \A k \in Kinds : WF_vars(GrdTickEnds(k))
    /\ \A u \in Updaters : WF_vars(GrdUpdateDone(u))

\* ------------------------------------------------ the pairs of a tick
\* A loop task of a running account has taken its snapshot, whose
\* destinations are all valid, and is in the _advertise of the first one.
TickInit ==
    /\ AccountInit
    /\ uiservers = <<>>
    /\ msg = NoMsg
    /\ cod = NoCod
    /\ rst = NoRst
    /\ ini = NoIni
    /\ cmp = NoCmp
    /\ grd = NoGrd
    /\ tck \in {[NoTck EXCEPT !.pc = "adv", !.snap = l, !.idx = 1, !.running = TRUE] :
                    l \in Perms(Dests) \cup {<<d>> : d \in Dests}}

\* The check of _running that follows a pair: `return`, or the next turn of
\* the async for
AfterPair(run) == IF ~run THEN "returned" ELSE "adv"

\* _advertise of the current destination yields a pair: save_log is called
\* and awaited when a message was sent, else the check of _running follows.
TckYield(m) ==
    /\ tck.pc = "adv"
    /\ Len(tck.seen) < MaxYields
    /\ LET pair == Pair(tck.snap[tck.idx], m) IN
        tck' = [tck EXCEPT !.seen = Append(@, pair),
                           !.log = Logged(@, pair),
                           !.pc = IF Logged(tck.log, pair) # tck.log THEN "save"
                                  ELSE AfterPair(tck.running)]
    /\ UNCHANGED notTck

\* save_log returns: the check of _running follows.
TckSaved ==
    /\ tck.pc = "save"
    /\ tck' = [tck EXCEPT !.pc = AfterPair(tck.running)]
    /\ UNCHANGED notTck

\* _advertise of the current destination is exhausted: the for loop goes on
\* with the next destination of the snapshot, or __loop returns.
TckExhausted ==
    /\ tck.pc = "adv"
    /\ tck' = IF tck.idx < Len(tck.snap) THEN [tck EXCEPT !.idx = @ + 1]
              ELSE [tck EXCEPT !.pc = "ended"]
    /\ UNCHANGED notTck

\* close() is called while the tick is in progress.
TckClose ==
    /\ tck.pc \in {"adv", "save"}
    /\ tck.running
    /\ tck' = [tck EXCEPT !.running = FALSE]
    /\ UNCHANGED notTck

TickNext ==
    \/ \E m \in MessageContexts : TckYield(m)
    \/ TckSaved
    \/ TckExhausted
    \/ TckClose

TickSpec == TickInit /\ [][TickNext]_vars

\* ------------------------------------------------ the restored attributes
\* Only the decoder acts, on values of any class of CONVERSION_ATTRS.
RestoreInit ==
    /\ AccountInit
    /\ uiservers = <<>>
    /\ msg = NoMsg
    /\ cod = NoCod
    /\ rst = NoRst
    /\ ini = NoIni
    /\ cmp = NoCmp
    /\ grd = NoGrd
    /\ tck = NoTck

\* convert_from_semi_dict(d), d of the class cls: the loop over attrs_restore
\* sets each attribute to a copy of the value of the table.
RstDecode(cls) ==
    /\ Len(rst.decoded) < MaxDecoded
    /\ LET n == Len(rst.decoded) + 1
           ref == [k \in MutableRestored(cls) |->
                        CopyCopy(TableObject(cls, k), <<n, cls, k>>)]
           made == {ref[k] : k \in MutableRestored(cls)} \ DOMAIN rst.heap
       IN  rst' = [heap |-> [o \in DOMAIN rst.heap \cup made |->
                                IF o \in DOMAIN rst.heap THEN rst.heap[o]
                                ELSE rst.heap[TableObject(o[2], o[3])]],
                   decoded |-> Append(rst.decoded,
                                      [cls |-> cls, ref |-> ref,
                                       done |-> [k \in MutableRestored(cls) |-> 0]])]
    /\ UNCHANGED notRst

\* The program changes the restored attribute k of the i-th decoded object in
\* place: an append to tasks, an entry in sent_messages or in cache, a permit
\* taken from the semaphore.
RstChange(i, k) ==
    /\ i \in 1..Len(rst.decoded)
    /\ k \in DOMAIN rst.decoded[i].ref
    /\ rst.decoded[i].done[k] < MaxChanges
    /\ rst' = [rst EXCEPT !.heap[rst.decoded[i].ref[k]] = @ + 1,
                          !.decoded[i].done[k] = @ + 1]
    /\ UNCHANGED notRst

RestoreNext ==
    \/ \E cls \in Registered : RstDecode(cls)
    \/ \E i \in 1..MaxDecoded :
        \E k \in {"tasks", "_update_sem", "update_semaphore", "sent_messages",
                  "_safe_sem", "cache"} : RstChange(i, k)

RestoreSpec == RestoreInit /\ [][RestoreNext]_vars

\* ------------------------------------------------------------------ claims
\* States in which a call has just returned (or raised) to the caller
Returned(op) == cop = op /\ cpc = "ret"
ReturnedOk(op) == Returned(op) /\ cerr = "none"

\* C1: removing a destination from the live set while a tick is in progress
\* never makes a scheduler loop raise: no loop task ends with an error.
C1_NoLoopRaises == \A t \in TaskIds : loops[t].pc # "error"

\* C2 as claimed: a destination removed from the live set while a tick is in
\* progress is not health-checked or advertised in the rest of that tick: a
\* loop never advertises a destination that had left the lists before its turn.
C2_RemovedNotProcessed == \A t \in TaskIds : loops[t].pc = "adv" => ~loops[t].stale

\* C2 as amended: a tick health-checks the destinations of the snapshot it
\* took at its start, in snapshot order, whether or not they are still in the
\* live set: what it has visited is always the snapshot up to its position.
C2_TickFollowsSnapshot ==
    \A t \in TaskIds : loops[t].pc = "adv" =>
        /\ loops[t].idx = Len(loops[t].visited)
        /\ Len(loops[t].visited) <= Len(loops[t].snap)
        /\ loops[t].visited = SubSeq(loops[t].snap, 1, Len(loops[t].visited))

\* A loop advertises the second destination of its snapshot, which was removed
\* from the live set after the snapshot was taken.
C2_Witness ==
    \E t \in TaskIds : loops[t].pc = "adv" /\ loops[t].stale /\ loops[t].idx = 2

C4_CloseTerminates ==
    (cpc = "gather") ~>
        (cpc # "gather" /\ \A t \in TaskIds : loops[t].pc \in {"none", "done", "error"})

\* close() waits in gather while a loop task is inside _advertise.
C4_Witness ==
    /\ cop = "close"
    /\ cpc = "gather"
    /\ entry.acct.running
    /\ \E t \in TaskIds : loops[t].pc = "adv"

\* A close() call made on an account that a close() has already closed
ClosedAgain == Returned("close") /\ entry.acct.clientState = "closed"

\* C5 as claimed: the second close() does not raise, does not release the
\* connection a second time, and leaves the account's state as it was.
C5_SecondCloseReturnsAtOnce ==
    ClosedAgain => (cerr = "none" /\ clientCloses = entry.closes /\ AcctState = entry.acct)

\* C5 as amended: the second close() does not raise and leaves the account's
\* state as it was after the first; it runs like the first, calling the
\* client's close once more.
C5_SecondCloseKeepsState ==
    ClosedAgain => (cerr = "none" /\ clientCloses = entry.closes + 1 /\ AcctState = entry.acct)

\* The second of two close() calls has returned.
C5_Witness == ClosedAgain /\ clientCloses = 2

\* C6: _running is true only while both loop tasks exist and have not ended.
C6_RunningImpliesAlive ==
    running => \A k \in Kinds : tasks[k] # 0 /\ ~Terminated(<<k, tasks[k]>>)

\* update() of a running account has returned without raising.
Updated == ReturnedOk("update") /\ entry.acct.running

\* C7: after update(token=...) of a running account, _running is true, both
\* handles refer to tasks created in the update, none of them a handle the
\* account held before, and the tasks it held before have ended.
C7_UpdateRestarts ==
    Updated =>
        /\ running
        /\ \A k \in Kinds :
            /\ tasks[k] # 0
            /\ tasks[k] > entry.acct.nConstr
            /\ tasks[k] \notin {entry.acct.tasks[j] : j \in Kinds}
            /\ loops[<<k, tasks[k]>>].pc # "none"
            /\ Terminated(<<k, entry.acct.tasks[k]>>)

\* update(token=...) of a running account has returned and the token changed.
C7_Witness == Updated /\ cArg # "keep" /\ token = cArg /\ token # entry.acct.token

C9_LoginRaisesRuntimeError ==
    (Returned("initialize") /\ cerr # "none") => cerr = "RuntimeError"

IsAutoGuild(d) == ~IsBaseGuild(d)
InitStarted ==
    /\ uiservers = <<>>
    /\ running
    /\ \A k \in Kinds : tasks[k] # 0 /\ loops[<<k, tasks[k]>>].pc = "start"

\* C10 as claimed: after a successful login initialize() of a newly
\* constructed account (its live set empty) returns with the live set holding
\* exactly the destinations whose initialize succeeded, in their given order,
\* the predefined list empty, both loops started and _running true.
C10_LiveSetInGivenOrder ==
    (ReturnedOk("initialize") /\ entry.acct.servers \o entry.acct.autoguilds = <<>>)
        => (Servers = initOk /\ InitStarted)

\* C10 as amended: initialize() returns with each of the two lists extended
\* by the predefined destinations of its category whose initialize succeeded,
\* in their given order (the live set is the explicit list followed by the
\* auto-discovering one), the predefined list empty, both loops started and
\* _running true.
C10_LiveSetByCategory ==
    ReturnedOk("initialize") =>
        /\ servers = entry.acct.servers \o SelectSeq(initOk, IsBaseGuild)
        /\ autoguilds = entry.acct.autoguilds \o SelectSeq(initOk, IsAutoGuild)
        /\ InitStarted

\* initialize() has returned with one of two predefined destinations skipped.
C10_Witness ==
    /\ ReturnedOk("initialize")
    /\ Len(entry.acct.uiservers) = 2
    /\ Len(initOk) = 1

\* The list of d's category, among the lists sv and ag
OwnList(d, sv, ag) == IF IsBaseGuild(d) THEN sv ELSE ag
OtherList(d, sv, ag) == IF IsBaseGuild(d) THEN ag ELSE sv

\* C11: add_server(d) either succeeds, and then d has been appended to the
\* list of its category and the other list is as it was, or raises the
\* exception of d.initialize, and then both lists are as they were.
C11_AddAppendsToOwnList ==
    [][\A d \in Dests : AddServer(d) =>
          \/ /\ cerr' = "none"
             /\ OwnList(d, servers', autoguilds') = Append(OwnList(d, servers, autoguilds), d)
             /\ OtherList(d, servers', autoguilds') = OtherList(d, servers, autoguilds)
          \/ /\ cerr' = "InitError"
             /\ servers' = servers
             /\ autoguilds' = autoguilds
      ]_vars

\* add_server has raised on an account whose live set is not empty.
C11_Witness ==
    /\ Returned("add_server")
    /\ cerr = "InitError"
    /\ Servers # <<>>
    /\ AcctState = entry.acct

\* The list l without its first occurrence of d
WithoutFirst(l, d) ==
    {SubSeq(l, 1, i - 1) \o SubSeq(l, i + 1, Len(l)) :
        i \in {j \in 1..Len(l) : l[j] = d /\ \A k \in 1..(j - 1) : l[k] # d}}

\* C12: remove_server(d) of a destination in the list of its category takes
\* its first occurrence out of that list and leaves the other list alone;
\* when d is not there it raises ValueError and both lists are as they were.
C12_RemoveFromOwnList ==
    [][\A d \in Dests : RemoveServer(d) =>
          IF InList(OwnList(d, servers, autoguilds), d)
          THEN /\ cerr' = "none"
               /\ OwnList(d, servers', autoguilds') \in
                      WithoutFirst(OwnList(d, servers, autoguilds), d)
               /\ OtherList(d, servers', autoguilds') = OtherList(d, servers, autoguilds)
          ELSE /\ cerr' = "ValueError"
               /\ servers' = servers
               /\ autoguilds' = autoguilds
      ]_vars

\* remove_server has raised ValueError on an account whose live set is not
\* empty.
C12_Witness ==
    /\ Returned("remove_server")
    /\ cerr = "ValueError"
    /\ Servers # <<>>
    /\ AcctState = entry.acct

\* C13: the period of a randomized message is in [start_period, end_period),
\* that of a fixed-period message is end_period, after the construction and
\* after every reset of the timer.
C13_PeriodInWindow ==
    msg.state = "ok" =>
        IF msg.randomized
        THEN msg.start <= msg.period /\ msg.period < msg.end
        ELSE msg.period = msg.end

\* The timer of a randomized message has been reset and the period drawn is
\* another one than before the last of its windows' values.
C13_Witness ==
    /\ msg.state = "ok"
    /\ msg.randomized
    /\ msg.op = "reset"
    /\ msg.start < msg.period
    /\ msg.period = msg.end - 1

\* C14: is_ready() returns true exactly when no forced retry is pending and
\* the elapsed time is above the period, or one is pending and the elapsed
\* time is above its delay; with one pending the period plays no part.
C14_ReadyFormula ==
    msg.op = "is_ready" =>
        /\ msg.ready <=> \/ (~msg.enabled /\ msg.elapsed > msg.period)
                         \/ (msg.enabled /\ msg.elapsed > msg.time)
        /\ msg.enabled => (msg.ready <=> msg.elapsed > msg.time)

\* is_ready() has returned false with a forced retry pending, the period
\* elapsed but not the delay.
C14_Witness ==
    /\ msg.op = "is_ready"
    /\ msg.enabled
    /\ msg.elapsed > msg.period
    /\ msg.elapsed <= msg.time
    /\ ~msg.ready

\* C15: once the timer has been reset and no forced retry armed since, the
\* forced-retry flag is clear and is_ready() is false as long as the elapsed
\* time has not passed the period, at elapsed time zero in particular.
C15_NotReadyAfterReset ==
    (msg.reset /\ ~msg.rearmed) =>
        /\ ~msg.enabled
        /\ msg.elapsed <= msg.period => ~IsReady(msg)
        /\ (msg.op = "is_ready" /\ msg.elapsed <= msg.period) => ~msg.ready

\* is_ready() has returned false right after a reset_timer() that found the
\* forced retry armed.
C15_Witness ==
    /\ msg.reset
    /\ msg.wasArmed
    /\ ~msg.rearmed
    /\ msg.op = "is_ready"
    /\ msg.elapsed = 0
    /\ ~msg.ready

\* C16: the first scheduler tick that reaches a message nothing has touched
\* since its construction sends it when start_now was true, whatever the
\* period; when start_now was false it sends it exactly when the elapsed
\* time is above the period.
C16_FirstTickSends ==
    msg.first \in {"sent", "waited"} =>
        IF msg.startNow
        THEN msg.first = "sent"
        ELSE msg.first = "sent" <=> msg.firstAt > msg.firstPeriod

\* The first tick has sent a start_now message before its period elapsed.
C16_Witness ==
    /\ msg.first = "sent"
    /\ msg.startNow
    /\ msg.firstAt < msg.firstPeriod

\* C17: while the forced retry armed by a failed send is pending, the
\* message is ready as soon as the elapsed time is above the delay, which is
\* before the period has elapsed when the delay is shorter than the period;
\* the next reset of the timer disarms it.
C17_RetryBeforePeriod ==
    /\ msg.rearmed =>
        /\ msg.enabled
        /\ IsReady(msg) <=> msg.elapsed > msg.time
        /\ (msg.time < msg.period /\ msg.elapsed = msg.time + 1) =>
                (IsReady(msg) /\ msg.elapsed <= msg.period)
    /\ msg.op \in {"reset", "send"} /\ ~msg.rearmed => ~msg.enabled

\* is_ready() has returned true after a failed send, before the period
\* elapsed.
C17_Witness ==
    /\ msg.rearmed
    /\ msg.op = "is_ready"
    /\ msg.ready
    /\ msg.time < msg.period
    /\ msg.elapsed <= msg.period

\* Two values are the same: primitives by their value, sequences item by
\* item (a list, a tuple and a set of the same items count as the same),
\* mappings key by key, objects of a registered class by their class and
\* the attributes that are encoded without a conversion.
RECURSIVE SameValue(_, _)
SameValue(a, b) ==
    CASE a.t \in {"int", "float", "dec"} -> b.t \in {"int", "float", "dec"} /\ a.v = b.v
      [] a.t \in {"str", "bool", "none", "opaque"} -> a = b
      [] a.t \in {"list", "tuple", "set"} ->
            /\ b.t \in {"list", "tuple", "set"}
            /\ Len(a.v) = Len(b.v)
            /\ \A i \in 1..Len(a.v) : SameValue(a.v[i], b.v[i])
      [] a.t = "dict" ->
            /\ b.t = "dict"
            /\ DOMAIN a.v = DOMAIN b.v
            /\ \A k \in DOMAIN a.v : SameValue(a.v[k], b.v[k])
      [] a.t = "obj" ->
            /\ b.t = "obj"
            /\ a.v.cls = b.v.cls
            /\ \A k \in Kept(a.v.cls) \ ConversionAttrs(a.v.cls).attrs_convert :
                    k \in DOMAIN b.v.f /\ SameValue(a.v.f[k], b.v.f[k])

\* C18: the object decoded from the encoded form of an object of a
\* registered class is of the same class, and each of its durable attributes
\* is the same value as before the encoding.
C18_RoundTrip ==
    (cod.pc = "decoded" /\ ~cod.tampered) => SameValue(cod.obj, cod.dec)

\* Every object of a registered class inside the decoded value d has each
\* attribute of its attrs_restore at the value of the table.
RECURSIVE RestoredEverywhere(_)
RestoredEverywhere(d) ==
    CASE d.t \in {"list", "tuple", "set"} ->
            \A i \in 1..Len(d.v) : RestoredEverywhere(d.v[i])
      [] d.t = "dict" -> \A k \in DOMAIN d.v : RestoredEverywhere(d.v[k])
      [] d.t = "obj" /\ d.v.cls \in Registered ->
            /\ \A k \in DOMAIN ConversionAttrs(d.v.cls).attrs_restore :
                    k \in DOMAIN d.v.f
                    /\ d.v.f[k] = ConversionAttrs(d.v.cls).attrs_restore[k]
            /\ \A k \in DOMAIN d.v.f : RestoredEverywhere(d.v.f[k])
      [] OTHER -> TRUE

\* C19: after the decoding every attribute of attrs_restore holds the value
\* of the table, in the decoded object and in the objects nested in it, also
\* when the encoded data carried an entry for it.
C19_RestoreWins ==
    cod.pc = "decoded" => (cod.dec.t = "obj" /\ RestoredEverywhere(cod.dec))

\* A running account has been decoded from data that carried its _running.
C19_Witness ==
    /\ cod.pc = "decoded"
    /\ cod.tampered
    /\ cod.obj.v.cls = "ACCOUNT"
    /\ cod.obj.v.f["_running"] = PyBool(TRUE)
    /\ "_running" \in DOMAIN cod.enc.v["data"].v
    /\ cod.enc.v["data"].v["_running"] = PyBool(TRUE)
    /\ Len(cod.obj.v.f["_servers"].v) = 2

\* The encoded value e has, wherever it holds the encoded form of an object,
\* the two entries object_type and data, the data with exactly the attributes
\* of the class that are in neither attrs_restore nor attrs_skip; no object of
\* a registered class is left in it.
RECURSIVE EncodedEverywhere(_)
EncodedEverywhere(e) ==
    CASE e.t = "list" -> \A i \in 1..Len(e.v) : EncodedEverywhere(e.v[i])
      [] e.t = "dict" /\ "object_type" \notin DOMAIN e.v ->
            \A k \in DOMAIN e.v : EncodedEverywhere(e.v[k])
      [] e.t = "dict" /\ "object_type" \in DOMAIN e.v ->
            /\ DOMAIN e.v = {"object_type", "data"}
            /\ e.v["object_type"].t = "str"
            /\ e.v["object_type"].v \in Registered
            /\ e.v["data"].t = "dict"
            /\ LET c == ConversionAttrs(e.v["object_type"].v)
               IN  DOMAIN e.v["data"].v =
                        c.attrs \ (DOMAIN c.attrs_restore \cup c.attrs_skip)
            /\ \A k \in DOMAIN e.v["data"].v : EncodedEverywhere(e.v["data"].v[k])
      [] e.t \in {"tuple", "set", "obj"} -> FALSE
      [] OTHER -> TRUE

\* C20: the encoded form of an object of a registered class is
\* {object_type, data}, of its class, the data with an entry for every
\* durable attribute and none for an attribute of attrs_restore or
\* attrs_skip, and so for the objects nested in it at every depth.
C20_EncodedForm ==
    (cod.pc = "encoded" /\ ~cod.tampered) =>
        /\ cod.enc.t = "dict"
        /\ "object_type" \in DOMAIN cod.enc.v
        /\ cod.enc.v["object_type"] = PyStr(cod.obj.v.cls)
        /\ EncodedEverywhere(cod.enc)

\* An account with two guilds, one of them with a message, has been encoded.
C20_Witness ==
    /\ cod.pc = "encoded"
    /\ ~cod.tampered
    /\ cod.obj.v.cls = "ACCOUNT"
    /\ Len(cod.obj.v.f["_servers"].v) = 2
    /\ Len(cod.enc.v["data"].v["_servers"].v) = 2

\* No encoded form of an object is left in the value d: every mapping with an
\* object_type entry has been made an object.
RECURSIVE NothingLeftEncoded(_)
NothingLeftEncoded(d) ==
    CASE d.t \in {"list", "tuple", "set"} ->
            \A i \in 1..Len(d.v) : NothingLeftEncoded(d.v[i])
      [] d.t = "dict" ->
            /\ "object_type" \notin DOMAIN d.v
            /\ \A k \in DOMAIN d.v : NothingLeftEncoded(d.v[k])
      [] d.t = "obj" -> \A k \in DOMAIN d.v.f : NothingLeftEncoded(d.v.f[k])
      [] OTHER -> TRUE

\* C21: the value decoded from what the encoder wrote holds, at every depth
\* of lists in lists, mappings in lists and lists in mappings, an object
\* where the encoded form of an object was: no mapping with an object_type
\* entry is left in it.
C21_NothingLeftEncoded ==
    (cod.pc = "decoded" /\ ~cod.tampered) => NothingLeftEncoded(cod.dec)

C24_PickleRoundTrip ==
    cod.pc = "unpickled" =>
        /\ cod.dec.t = "obj"
        /\ cod.dec.v.cls = cod.obj.v.cls
        /\ cod.dec = ConvertFromSemiDict(ConvertObjectToSemiDict(cod.obj))

\* The data d is a list with an object in it and only objects of the types
\* the class cls allows.
AllowedList(cls, d) ==
    /\ d.kind = "list"
    /\ Len(d.items) > 0
    /\ \A i \in 1..Len(d.items) : d.items[i] \in ValidDataTypes(cls)

C26_EqualByToken ==
    cmp.pc = "done" =>
        /\ cmp.other.type = "ACCOUNT" =>
                /\ cmp.res \in {"True", "False"}
                /\ cmp.res = "True" <=> cmp.self._token = cmp.other._token
        /\ cmp.other.type # "ACCOUNT" => cmp.res = "NotImplementedError"

\* Two accounts with the same token, one running and with a server, the
\* other not, have compared equal.
C26_Witness ==
    /\ cmp.pc = "done"
    /\ cmp.other.type = "ACCOUNT"
    /\ cmp.self._token = cmp.other._token
    /\ cmp.self._running /\ ~cmp.other._running
    /\ cmp.self._servers # cmp.other._servers
    /\ cmp.res = "True"

\* The step is one of the loop task t in which it goes on with a destination
\* of its snapshot: it calls its _check_state and then removes it (or raises
\* in remove_server) or starts its _advertise.
ProcessesNext(t) ==
    /\ loops'[t] # loops[t]
    /\ \/ loops'[t].pc = "adv" /\ Len(loops'[t].visited) > Len(loops[t].visited)
       \/ servers' # servers
       \/ autoguilds' # autoguilds
       \/ loops'[t] = Ended("error")

\* C27: a loop task that is in the _advertise of a destination when _running
\* is false goes on with no other destination of its snapshot in that tick.
C27_StopsWhenNotRunning ==
    [][\A t \in TaskIds :
        (loops[t].pc = "adv" /\ ~running) => ~ProcessesNext(t)]_vars

HeldByLoops(s) ==
    LoopAmount * Cardinality({t \in TaskIds :
                                loops[t].sem = s /\ loops[t].pc \in {"sleep", "adv"}})

\* C30: the permits the loop tasks and update_servers hold of the account's
\* semaphore and the free ones are together the permits of the semaphore,
\* never more: every permit taken for a tick or for update_servers is given
\* back when it ends, also when the tick ends by the `return` after _running
\* became false, and with no tick and no update_servers in progress all the
\* permits are free.
C30_PermitsBalanced ==
    /\ permits[semId] >= 0
    /\ HeldByLoops(semId) + cHeld <= SemPermits
    /\ permits[semId] + HeldByLoops(semId) + cHeld = SemPermits
    /\ (HeldByLoops(semId) = 0 /\ cHeld = 0) => permits[semId] = SemPermits

\* Both loop tasks of a running account that has destinations have ended
\* after a close(), and all the permits are free again.
C30_Witness ==
    /\ cop = "close"
    /\ cpc = "ret"
    /\ entry.acct.running
    /\ \A k \in Kinds : tasks[k] # 0 /\ loops[<<k, tasks[k]>>].pc = "done"
    /\ permits[semId] = SemPermits
    /\ Len(Servers) > 0

HeldInIteration(s) ==
    LoopAmount * Cardinality({t \in TaskIds :
                                loops[t].sem = s /\ loops[t].pc = "adv"})

\* C31: a loop task in its poll-delay sleep holds no permit: the free permits
\* of the account's semaphore, those of update_servers and those of the loop
\* tasks that are in their for loop make up all the permits.
C31_NoPermitWhileSleeping ==
    permits[semId] + HeldInIteration(semId) + cHeld = SemPermits

\* The loop task t is inside __loop: in its sleep or in its for loop.
InsideLoop(t) == loops[t].pc \in {"sleep", "adv"}

\* C32: while update_servers is in its for loop over the destinations, no loop
\* task of the account is inside __loop, so none checks, removes or advertises
\* a destination.
C32_NoTickDuringUpdate ==
    cpc = "upd_srv" => \A t \in TaskIds : ~InsideLoop(t)

\* update_servers is about to update its first destination while a loop task
\* created by this update waits for a permit.
C32_Witness ==
    /\ cpc = "upd_srv"
    /\ cIdx = 1
    /\ Len(cList) > 0
    /\ cHeld = UpdateAmount
    /\ \E k \in Kinds : tasks[k] # 0 /\ loops[<<k, tasks[k]>>].pc = "waitsem"

\* The step is one of the loop task t in which its for loop goes on: from the
\* start of the snapshot after the sleep, or from the destination after the
\* one whose _advertise has ended.
TickStep(t) == LoopWake(t) \/ LoopAdvEnd(t)
\* The snapshot that for loop iterates, the position the step starts at and
\* the last position it gets past
StepList(t) == IF loops[t].pc = "sleep" THEN Servers ELSE loops[t].snap
StepFrom(t) == IF loops[t].pc = "sleep" THEN 1 ELSE loops[t].idx + 1
StepPassed(t) ==
    IF loops'[t].pc = "adv" THEN loops'[t].idx - 1 ELSE Len(StepList(t))

\* How many times the list s holds d
Count(s, d) == Cardinality({i \in 1..Len(s) : s[i] = d})

\* C33: the destinations a tick gets past without advertising them are the
\* ones whose health check reports them invalid: each such visit takes the
\* destination out of the account's lists once and nothing else changes in
\* them, the loop task does not end with an error but goes on, the
\* destination it advertises next is the next one of the snapshot that is not
\* invalid, and the snapshot is the same as before.
C33_InvalidRemovedAndSkipped ==
    [][\A t \in TaskIds : TickStep(t) =>
        /\ loops'[t].pc # "error"
        /\ \A i \in StepFrom(t)..StepPassed(t) : StepList(t)[i] \in invalid
        /\ \A d \in Dests :
            Count(servers' \o autoguilds', d) =
                Count(Servers, d)
                - Cardinality({i \in StepFrom(t)..StepPassed(t) : StepList(t)[i] = d})
        /\ loops'[t].pc = "adv" =>
            /\ loops'[t].snap = StepList(t)
            /\ StepList(t)[loops'[t].idx] \notin invalid
      ]_vars

\* C34: the save_log calls of a tick are the pairs yielded so far whose
\* message context is not None, each once, with its two contexts and in yield
\* order (a failed send among them); and the tick is left before the snapshot
\* is through only by the check of _running, never because a send failed.
C34_LogFollowsYields ==
    /\ tck.log = SelectSeq(tck.seen, LAMBDA p : p.message_ctx # "None")
    /\ tck.pc = "returned" => ~tck.running

\* A tick over two destinations has ended in which the first destination
\* yielded a failed send and a pair with no message context, the second one a
\* send: two save_log calls were made.
C34_Witness ==
    /\ tck.pc = "ended"
    /\ Len(tck.snap) = 2
    /\ Len(tck.seen) = 3
    /\ tck.seen[1] = Pair(tck.snap[1], "failed")
    /\ tck.seen[2] = Pair(tck.snap[1], "None")
    /\ tck.seen[3] = Pair(tck.snap[2], "sent")
    /\ Len(tck.log) = 2

\* In the list l no auto-discovering destination precedes an explicit one.
ExplicitFirst(l) ==
    \A i, j \in 1..Len(l) : (i < j /\ IsBaseGuild(l[j])) => IsBaseGuild(l[i])

\* C35: the snapshot of a tick is the account's explicit destinations followed
\* by its auto-discovering ones as they were when the for loop started; while
\* the tick goes on the snapshot stays as it is whatever is added meanwhile,
\* the destinations health-checked so far are the snapshot up to the one being
\* advertised, and a pair is handled without the position moving.
C35_SnapshotOrder ==
    [][\A t \in TaskIds :
        /\ (LoopWake(t) /\ loops'[t].pc = "adv") =>
            /\ loops'[t].snap = servers \o autoguilds
            /\ ExplicitFirst(loops'[t].snap)
        /\ loops'[t].pc = "adv" =>
            /\ loops'[t].idx <= Len(loops'[t].snap)
            /\ loops'[t].visited = SubSeq(loops'[t].snap, 1, loops'[t].idx)
        /\ (loops[t].pc = "adv" /\ loops'[t].pc = "adv") =>
            /\ loops'[t].snap = loops[t].snap
            /\ loops'[t].idx >= loops[t].idx
            /\ loops'[t].pairs > loops[t].pairs => loops'[t].idx = loops[t].idx
            /\ loops'[t].idx > loops[t].idx => loops'[t].pairs = 0
      ]_vars

\* A loop task has handled the pairs of the only destination of its snapshot,
\* and a destination that was added during the tick is in the account's lists.
C35_Witness ==
    \E t \in TaskIds :
        /\ loops[t].pc = "adv"
        /\ loops[t].snap = <<1>>
        /\ loops[t].pairs = MaxPairs
        /\ servers \o autoguilds = <<1, 2>>

\* The step changes one of the account's two lists of destinations.
ChangesLists == servers' # servers \/ autoguilds' # autoguilds
\* The step is an add_server (called by the user or by initialize for a
\* predefined destination), a remove_server, or one of a tick in which
\* invalid destinations are removed.
AddRemoveOrPrune ==
    \/ InitAdd
    \/ \E d \in Dests : AddServer(d)
    \/ \E d \in Dests : RemoveServer(d)
    \/ \E t \in TaskIds : TickStep(t)
\* The snapshot of a tick in progress stays what it is.
SnapshotsKept ==
    \A t \in TaskIds :
        (loops[t].pc = "adv" /\ loops'[t].pc = "adv") => loops'[t].snap = loops[t].snap

\* C36 as stated: the account's lists of destinations are changed only by
\* add_server, remove_server and the removal of invalid destinations in a
\* tick (close, update and the other steps of the loop tasks leave them as
\* they are), and the snapshot of a tick is never modified.
C36_OnlyAddRemovePrune ==
    [][/\ ChangesLists => AddRemoveOrPrune
       /\ SnapshotsKept]_vars

\* C36 as amended: the lists are changed only by add_server, remove_server,
\* the removal of invalid destinations in a tick, and the construction that
\* update() runs again, which makes both lists empty and hands the
\* destinations they held to initialize as predefined ones; the snapshot of a
\* tick is never modified.
C36_AlsoReconstruction ==
    [][/\ ChangesLists => (AddRemoveOrPrune \/ UpdateReconstruct)
       /\ UpdateReconstruct =>
            /\ servers' = <<>>
            /\ autoguilds' = <<>>
            /\ uiservers' = servers \o autoguilds
       /\ SnapshotsKept]_vars

\* update() of an account that had destinations has run the construction
\* again: both lists are empty, the destinations are the predefined ones.
C36_Witness ==
    /\ cop = "update"
    /\ cpc = "login"
    /\ Len(entry.acct.servers) > 0
    /\ Len(entry.acct.autoguilds) > 0
    /\ servers = <<>>
    /\ autoguilds = <<>>
    /\ uiservers = entry.acct.servers \o entry.acct.autoguilds

\* C37: the step in which the login of initialize() fails raises to the
\* caller and leaves the account as it was: _running is false, the handles
\* are None and no loop task of this construction exists, the lists and the
\* predefined destinations are unchanged and none of these was initialized.
C37_FailedLoginLeavesAccount ==
    [][(cpc = "login" /\ cpc' = "ret") =>
        /\ cerr' # "none"
        /\ UNCHANGED acctVars
        /\ UNCHANGED loops
        /\ ~running'
        /\ \A k \in Kinds : tasks'[k] = 0 /\ loops'[<<k, nConstr'>>].pc = "none"
        /\ initOk' = <<>>
      ]_vars

\* initialize() of an account with two predefined destinations has failed at
\* the login.
C37_Witness ==
    /\ cop = "initialize"
    /\ cpc = "ret"
    /\ cerr # "none"
    /\ Len(uiservers) = 2
    /\ servers \o autoguilds = <<>>

\* When the loop task t is created it has not run yet, _running is true and
\* every predefined destination has been through add_server (the list of
\* predefined destinations is empty); and t is not inside __loop while
\* predefined destinations are left.
CreatedWhenReady(t) ==
    /\ (loops[t].pc = "none" /\ loops'[t].pc # "none") =>
        /\ loops'[t].pc = "start"
        /\ running'
        /\ uiservers' = <<>>
    /\ loops'[t].pc \in {"sleep", "adv"} => uiservers' = <<>>

\* C38 as stated: a loop task is created when the account is ready, and its
\* first step never finds _running false: it goes on to its first tick.
C38_FirstStepFindsRunning ==
    [][\A t \in TaskIds :
        /\ CreatedWhenReady(t)
        /\ (loops[t].pc = "start" /\ loops'[t].pc # "start") =>
            running /\ loops'[t].pc \in {"sleep", "waitsem"}
      ]_vars

\* C38 as amended: a loop task is created when the account is ready, and its
\* first step finds _running true and goes on to its first tick, unless a
\* close() called since the task was created waits for it: then the task ends.
C38_RunningBeforeFirstStep ==
    [][\A t \in TaskIds :
        /\ CreatedWhenReady(t)
        /\ (loops[t].pc = "start" /\ loops'[t].pc # "start") =>
            \/ running /\ loops'[t].pc \in {"sleep", "waitsem"}
            \/ ~running /\ cpc = "gather" /\ loops'[t].pc = "done"
      ]_vars

\* initialize() has returned with both predefined destinations added; both
\* loop tasks exist and have not run yet.
C38_Witness ==
    /\ cop = "initialize"
    /\ cpc = "ret"
    /\ cerr = "none"
    /\ running
    /\ \A k \in Kinds : tasks[k] # 0 /\ loops[<<k, tasks[k]>>].pc = "start"
    /\ Len(initOk) = 2
    /\ uiservers = <<>>

\* C39: the attributes the decoder restores on an ACCOUNT are what __init__
\* gives a new one: tasks is the dict with the keys "text" and "voice" and no
\* task, _update_sem a semaphore of 2 permits (those update_servers takes),
\* _running is False and _client is a client object.
C39_RestoredAsConstructed ==
    (/\ cod.pc = "decoded"
     /\ ~cod.tampered
     /\ cod.obj.v.cls = "ACCOUNT") =>
        /\ cod.dec.v.f["tasks"] = ConstructedTasks
        /\ SemaphoreValue(cod.dec.v.f["_update_sem"]) = SemPermits
        /\ SemaphoreValue(cod.dec.v.f["_update_sem"]) >= UpdateAmount
        /\ cod.dec.v.f["_running"] = PyBool(FALSE)
        /\ cod.dec.v.f["_client"].t = "opaque"
====
